---- MODULE Spec2Model ----
(***************************************************************************)
(* Model of main.py: a Streamlit chat front end over two MongoDB           *)
(* collections (users, chat_history) and a Gemini chat handle.             *)
(*                                                                         *)
(* Each browser connection is a session with its own st.session_state.     *)
(* A session runs the script top to bottom, one run at a time; the steps   *)
(* of a run that touch the shared database are separate actions, so that   *)
(* runs of different sessions interleave at database operations.           *)
(*                                                                         *)
(* A string is represented by the list of its pieces between single        *)
(* spaces (Python's s.split(" ")): "" is <<"">>, "a b" is <<"a","b">> and  *)
(* f"{x} {y}" is the concatenation of the two lists.                       *)
(*                                                                         *)
(* The database outlives the process: a behaviour starts on a new database *)
(* or on one that earlier runs filled (InitHistory).  Timestamps are clock *)
(* readings in milliseconds; the user turn of a submit may carry the stamp *)
(* of the document inserted before it, the reply is stamped later.         *)
(* A database operation of the submit flow may raise (StoreFailure).       *)
(* The text input keeps its value under its key from run to run; a run is  *)
(* caused by text entered (SubmitBegin), a button, or the browser (Rerun).  *)
(***************************************************************************)
EXTENDS Integers, Sequences, FiniteSets, Bags, TLC

\* ---------------------------------------------------------------- bounds
MaxSubmits == 1

\* ------------------------------------------------------------- constants
K == 5

Sessions == {"s1", "s2"}
Usernames == {"alice", "bob"}
Passwords == {"pw1", "pw2"}
\* The username/password pairs typed into the sidebar forms.
Credentials == {<<"alice", "pw1">>, <<"alice", "pw2">>, <<"bob", "pw2">>}
InputTexts == {<<"cats", "rule">>, <<"dogs", "are", "great">>}
Errors == {<<"timeout">>}
None == "None"

VARIABLES
  users,              \* user_collection: bag of {username, password}
  collection,         \* chat_history: list of {role, text, timestamp, username}
  now,                \* the wall clock read by datetime.now()
  logged_in,          \* st.session_state.logged_in, per session
  username,           \* st.session_state.username, per session
  messages,           \* st.session_state.messages, per session
  chat_session,       \* history held by st.session_state.chat_session
  pc,                 \* position of the session's current script run
  form,               \* username/password of a registration past its check
  user_input,         \* widget state of the text input: its key and value
  user_prompt,        \* local of the run: the submitted text
  relevant_messages,  \* local of the run: the retrieved texts
  combined_prompt,    \* local of the run: the augmented prompt
  response_text,      \* local of the run: the reply text
  submits,            \* number of texts entered so far
  last                \* history of the session's latest submit

vars == <<users, collection, now, logged_in, username, messages, chat_session,
          pc, form, user_input, user_prompt, relevant_messages,
          combined_prompt, response_text, submits, last>>

dbVars == <<users, collection, now>>
sessVars == <<logged_in, username, messages, chat_session>>
localVars == <<user_prompt, relevant_messages, combined_prompt, response_text>>

\* ------------------------------------------------------ password hashing
\* hashlib.sha256(password.encode()).hexdigest(), on the bounded password
\* set (the first eight hex digits of each digest)
hash_password(password) ==
  CASE password = "pw1" -> "c592df4a"
    [] password = "pw2" -> "93915a0a"
    [] OTHER -> "e3b0c442"

\* user_collection.find_one({"username": u}) is not None
UsernameExists(coll, u) == \E d \in BagToSet(coll) : d.username = u

authenticate_user(coll, u, p) ==
  \E d \in BagToSet(coll) :
    d.username = u /\ d.password = hash_password(p)

\* ----------------------------------------------------------- text search
\* The text index lower-cases, strips punctuation and stems each word.
Term(w) ==
  CASE w = "cats" -> "cat"
    [] w = "dogs" -> "dog"
    [] w = "Error:" -> "error"
    [] OTHER -> w

\* Stop words of the index language, and the empty piece.
StopTerms == {"are", "is", "the", ""}

Terms(text) == {Term(text[i]) : i \in DOMAIN text} \ StopTerms

\* Matches without the username filter.
MatchesAnyUser(doc, u, q) == Terms(doc.text) \cap Terms(q) # {}

\* {"username": u, "$text": {"$search": q}}
Matches(doc, u, q) == doc.username = u /\ Terms(doc.text) \cap Terms(q) # {}

Matching(coll, u, q) == {i \in DOMAIN coll : Matches(coll[i], u, q)}

\* SortedLimit with the sort ascending.
RECURSIVE SortedLimitOldestFirst(_, _, _)
SortedLimitOldestFirst(coll, S, n) ==
  IF n = 0 \/ S = {} THEN {<<>>}
  ELSE LET top == {i \in S : \A j \in S : coll[j].timestamp >= coll[i].timestamp}
       IN UNION {{<<i>> \o r : r \in SortedLimitOldestFirst(coll, S \ {i}, n - 1)} :
                 i \in top}

\* .sort("timestamp", -1).limit(n): every order the sort may produce; the
\* order among documents of equal timestamp is not determined.
RECURSIVE SortedLimit(_, _, _)
SortedLimit(coll, S, n) ==
  IF n = 0 \/ S = {} THEN {<<>>}
  ELSE LET top == {i \in S : \A j \in S : coll[j].timestamp <= coll[i].timestamp}
       IN UNION {{<<i>> \o r : r \in SortedLimit(coll, S \ {i}, n - 1)} : i \in top}

\* The documents the cursor of retrieve_relevant_messages may yield, as
\* positions in the collection.
RetrieveCursor(coll, u, q) == SortedLimit(coll, Matching(coll, u, q), K)

\* [doc['text'] for doc in results]
DocTexts(coll, r) == [k \in DOMAIN r |-> coll[r[k]].text]

\* The lists retrieve_relevant_messages may return.
retrieve_relevant_messages(coll, u, q) ==
  {DocTexts(coll, r) : r \in RetrieveCursor(coll, u, q)}

\* " ".join(texts)
RECURSIVE Join(_)
Join(texts) ==
  IF texts = <<>> THEN <<"">>
  ELSE IF Len(texts) = 1 THEN texts[1]
  ELSE texts[1] \o Join(Tail(texts))

\* The new text put before the retrieved context.
CombinedPromptTextFirst(texts, prompt) == prompt \o Join(texts)

\* f"{context} {user_prompt}"
CombinedPrompt(texts, prompt) == Join(texts) \o prompt

\* f"Error: {e}"
ErrorReply(e) == <<"Error:">> \o e

\* register_user: user_collection after insert_one.  The collection is only
\* ever queried by content, so it is kept as the bag of its documents.
register_user(coll, u, p) ==
  coll (+) SetToBag({[username |-> u, password |-> hash_password(p)]})

\* A write that replaces the user's latest document of the same role when
\* there is one (update_one with upsert) instead of inserting.
store_message_upsert(coll, role, text, t, u) ==
  LET doc == [role |-> role, text |-> text, timestamp |-> t, username |-> u]
      old == {i \in DOMAIN coll : coll[i].username = u /\ coll[i].role = role}
  IN IF old = {} THEN Append(coll, doc)
     ELSE [coll EXCEPT ![CHOOSE i \in old : \A j \in old : j <= i] = doc]

\* store_message: the collection after insert_one, stamped with time t
store_message(coll, role, text, t, u) ==
  Append(coll, [role |-> role, text |-> text, timestamp |-> t, username |-> u])

\* The text input holds nothing: no value is kept under any key.
NoInput == [key |-> 0, value |-> <<"">>]

\* ------------------------------------------------------------------ Init
\* last[s]: what the session's latest submit did so far.  outcome is
\* "none", "running", "completed" or "aborted"; wrote lists the positions in
\* the collection it inserted; calls counts its send_message calls; failed
\* tells whether send_message raised; base is len(messages) when it began.
NoSubmit == [outcome |-> "none", wrote |-> <<>>, calls |-> 0,
             failed |-> FALSE, base |-> 0]

\* A fresh connection: lines 81-83 and 116-119.
FreshSessions ==
  /\ logged_in = [s \in Sessions |-> FALSE]
  /\ username = [s \in Sessions |-> None]
  /\ messages = [s \in Sessions |-> <<>>]
  /\ chat_session = [s \in Sessions |-> <<>>]
  /\ pc = [s \in Sessions |-> "idle"]
  /\ form = [s \in Sessions |-> None]
  /\ user_input = [s \in Sessions |-> NoInput]
  /\ user_prompt = [s \in Sessions |-> None]
  /\ relevant_messages = [s \in Sessions |-> None]
  /\ combined_prompt = [s \in Sessions |-> None]
  /\ response_text = [s \in Sessions |-> None]
  /\ submits = 0
  /\ last = [s \in Sessions |-> NoSubmit]

\* The database is new.
InitEmpty ==
  /\ users = EmptyBag
  /\ collection = <<>>
  /\ now = 0
  /\ FreshSessions

\* What one completed submit of user u leaves in the collection when the
\* user turn is stamped t and the reply t + 1 (lines 185-206); ok tells
\* whether the model answered (echoing the prompt) or raised.
PastSubmit(coll, u, text, t, ok) ==
  LET c1 == store_message(coll, "user", text, t, u)
      r == CHOOSE x \in retrieve_relevant_messages(c1, u, text) : TRUE
      reply == IF ok THEN CombinedPrompt(r, text)
               ELSE ErrorReply(CHOOSE e \in Errors : TRUE)
  IN store_message(c1, "assistant", reply, t + 1, u)

\* The database as earlier runs of the program left it: alice and bob are
\* registered and five submits completed, one after the other.
PastUsers ==
  register_user(register_user(EmptyBag, "alice", "pw1"), "bob", "pw2")

PastCollection ==
  LET cats == <<"cats", "rule">>
      dogs == <<"dogs", "are", "great">>
      h1 == PastSubmit(<<>>, "alice", <<"cats", "are", "great">>, 1, TRUE)
      h2 == PastSubmit(h1, "bob", cats, 3, FALSE)
      h3 == PastSubmit(h2, "alice", dogs, 5, FALSE)
      h4 == PastSubmit(h3, "alice", cats, 7, TRUE)
  IN PastSubmit(h4, "alice", cats, 9, TRUE)

InitHistory ==
  /\ users = PastUsers
  /\ collection = PastCollection
  /\ now = 10
  /\ FreshSessions

\* The database outlives the process: a run starts on a new database or on
\* the one earlier runs left.
Init == InitEmpty \/ InitHistory

\* ---------------------------------------------------------- registration
\* RegisterCheck without the existence check.
RegisterCheckNoLookup(s, u, p) ==
  /\ pc[s] = "idle"
  /\ ~logged_in[s]
  /\ pc' = [pc EXCEPT ![s] = "reg_insert"]
  /\ form' = [form EXCEPT ![s] = [username |-> u, password |-> p]]
  /\ UNCHANGED <<dbVars, sessVars, user_input, localVars, submits, last>>

\* Lines 88-95: "Register" ticked, the inputs filled, the button pressed,
\* and the existence check; an existing name ends the run with
\* "Username already exists".
RegisterCheck(s, u, p) ==
  /\ pc[s] = "idle"
  /\ ~logged_in[s]
  /\ IF UsernameExists(users, u)
     THEN UNCHANGED <<pc, form>>
     ELSE /\ pc' = [pc EXCEPT ![s] = "reg_insert"]
          /\ form' = [form EXCEPT ![s] = [username |-> u, password |-> p]]
  /\ UNCHANGED <<dbVars, sessVars, user_input, localVars, submits, last>>

\* Lines 96-97.
RegisterInsert(s) ==
  /\ pc[s] = "reg_insert"
  /\ users' = register_user(users, form[s].username, form[s].password)
  /\ pc' = [pc EXCEPT ![s] = "idle"]
  /\ form' = [form EXCEPT ![s] = None]
  /\ UNCHANGED <<collection, now, sessVars, user_input, localVars, submits, last>>

\* ------------------------------------------------------- login and logout
\* Login that looks the username up without the password.
LoginAnyPassword(s, u, p) ==
  /\ pc[s] = "idle"
  /\ ~logged_in[s]
  /\ IF UsernameExists(users, u)
     THEN /\ logged_in' = [logged_in EXCEPT ![s] = TRUE]
          /\ username' = [username EXCEPT ![s] = u]
     ELSE UNCHANGED <<logged_in, username>>
  /\ UNCHANGED <<dbVars, messages, chat_session, pc, form, user_input, localVars,
                 submits, last>>

\* Lines 99-107, then the rest of the run (116-119 keep what is there,
\* 166-183 display and find the chat input empty).
Login(s, u, p) ==
  /\ pc[s] = "idle"
  /\ ~logged_in[s]
  /\ IF authenticate_user(users, u, p)
     THEN /\ logged_in' = [logged_in EXCEPT ![s] = TRUE]
          /\ username' = [username EXCEPT ![s] = u]
     ELSE UNCHANGED <<logged_in, username>>
  /\ UNCHANGED <<dbVars, messages, chat_session, pc, form, user_input, localVars,
                 submits, last>>

\* Logout that clears the flag and leaves the name in place.
LogoutKeepsUsername(s) ==
  /\ pc[s] = "idle"
  /\ logged_in[s]
  /\ logged_in' = [logged_in EXCEPT ![s] = FALSE]
  /\ user_input' = [user_input EXCEPT ![s] = NoInput]
  /\ UNCHANGED <<dbVars, username, messages, chat_session, pc, form,
                 localVars, submits, last>>

\* Logout that also deletes the documents of the user who logs out.
LogoutPurging(s) ==
  /\ pc[s] = "idle"
  /\ logged_in[s]
  /\ logged_in' = [logged_in EXCEPT ![s] = FALSE]
  /\ username' = [username EXCEPT ![s] = None]
  /\ collection' = SelectSeq(collection, LAMBDA d : d.username # username[s])
  /\ user_input' = [user_input EXCEPT ![s] = NoInput]
  /\ UNCHANGED <<users, now, messages, chat_session, pc, form, localVars,
                 submits, last>>

\* Lines 108-113, and the rerun it asks for (85-107 draw the login form,
\* 116-119 keep chat_session and messages, 213-214 warn): that run does not
\* draw the text input, whose state is dropped.
Logout(s) ==
  /\ pc[s] = "idle"
  /\ logged_in[s]
  /\ logged_in' = [logged_in EXCEPT ![s] = FALSE]
  /\ username' = [username EXCEPT ![s] = None]
  /\ user_input' = [user_input EXCEPT ![s] = NoInput]
  /\ UNCHANGED <<dbVars, messages, chat_session, pc, form, localVars,
                 submits, last>>

\* ----------------------------------------------------------------- submit
\* datetime.now() in store_message, as stored (milliseconds), for the user
\* turn: the clock may or may not have advanced since the last document
\* was stamped.  With no document yet there is no stamp to coincide with,
\* and one reading stands for all.
ClockReadings == IF collection = <<>> THEN {now + 1} ELSE {now, now + 1}

\* datetime.now() for the reply: the retrieval query and the call to the
\* model lie between the two writes of a run, so the clock has advanced.
ReplyClockReadings == {now + 1}

\* Positions of the documents a step adds to the collection.
NewDocs == [i \in 1..(Len(collection') - Len(collection)) |-> Len(collection) + i]

\* The text input drawn under one key in every run.
WidgetKeyFixed(msgs) == 0

\* Line 182: the key of the text input, f"user_input_{len(messages)}".
WidgetKey(msgs) == Len(msgs)

\* Line 182: what st.text_input returns in a run of s: the value kept under
\* the key the run asks for, and nothing when the key is new.
InputValue(s) ==
  IF user_input[s].key = WidgetKey(messages[s])
  THEN user_input[s].value
  ELSE <<"">>

\* The widget state a run that draws the input for the view msgs leaves:
\* the state of a widget the run did not draw is dropped.
Drawn(inp, msgs) ==
  IF inp.key = WidgetKey(msgs) THEN inp ELSE NoInput

\* Line 183: the run found text and starts the submit flow with it.
StartSubmit(s, text) ==
  /\ pc' = [pc EXCEPT ![s] = "store_user"]
  /\ user_prompt' = [user_prompt EXCEPT ![s] = text]
  /\ last' = [last EXCEPT ![s] = [outcome |-> "running", wrote |-> <<>>,
                                  calls |-> 0, failed |-> FALSE,
                                  base |-> Len(messages[s])]]
  /\ UNCHANGED <<dbVars, sessVars, form, relevant_messages, combined_prompt,
                 response_text>>

\* Lines 166-183: the user of a logged-in session enters a text other than
\* the one the input shows, and the run this causes finds it in the input.
SubmitBegin(s, text) ==
  /\ pc[s] = "idle"
  /\ logged_in[s]
  /\ InputValue(s) # text
  /\ submits < MaxSubmits
  /\ submits' = submits + 1
  /\ user_input' = [user_input EXCEPT ![s] =
                      [key |-> WidgetKey(messages[s]), value |-> text]]
  /\ StartSubmit(s, text)

\* Lines 166-183: a run of a logged-in session that no new text caused (the
\* browser asks for a rerun).  It draws the input under the key of the view
\* as it is, and takes up the text it finds there, if any.
Rerun(s) ==
  /\ pc[s] = "idle"
  /\ logged_in[s]
  /\ IF InputValue(s) # <<"">>
     THEN /\ StartSubmit(s, InputValue(s))
          /\ UNCHANGED <<user_input, submits>>
     ELSE /\ user_input[s] # NoInput
          /\ user_input' = [user_input EXCEPT ![s] = NoInput]
          /\ UNCHANGED <<dbVars, sessVars, pc, form, localVars, submits, last>>

\* The user turn appended to the view without being inserted.
StoreUserNoInsert(s) ==
  /\ pc[s] = "store_user"
  /\ messages' = [messages EXCEPT ![s] =
                    Append(@, [role |-> "user", text |-> user_prompt[s]])]
  /\ pc' = [pc EXCEPT ![s] = "retrieve"]
  /\ UNCHANGED <<dbVars, logged_in, username, chat_session, form, user_input, localVars,
                 submits, last>>

\* Lines 185-188.
StoreUser(s) ==
  /\ pc[s] = "store_user"
  /\ \E t \in ClockReadings :
       /\ now' = t
       /\ collection' = store_message(collection, "user", user_prompt[s], t,
                                      username[s])
  /\ messages' = [messages EXCEPT ![s] =
                    Append(@, [role |-> "user", text |-> user_prompt[s]])]
  /\ last' = [last EXCEPT ![s].wrote = @ \o NewDocs]
  /\ pc' = [pc EXCEPT ![s] = "retrieve"]
  /\ UNCHANGED <<users, logged_in, username, chat_session, form, user_input, localVars,
                 submits>>

\* The query leaves out the document the run has just inserted, as it would
\* if it were evaluated before the write.
RetrieveBeforeStore(s) ==
  /\ pc[s] = "retrieve"
  /\ \E c \in SortedLimit(collection,
                          Matching(collection, username[s], user_prompt[s])
                            \ {last[s].wrote[1]}, K) :
       LET r == DocTexts(collection, c)
       IN /\ relevant_messages' = [relevant_messages EXCEPT ![s] = r]
          /\ combined_prompt' = [combined_prompt EXCEPT ![s] =
                                   CombinedPrompt(r, user_prompt[s])]
          /\ messages' = [messages EXCEPT ![s] =
                            Append(@, [role |-> "system",
                                       text |-> CombinedPrompt(r, user_prompt[s]),
                                       retrieved |-> r])]
  /\ pc' = [pc EXCEPT ![s] = "call_model"]
  /\ UNCHANGED <<dbVars, logged_in, username, chat_session, form, user_input, user_prompt,
                 response_text, submits, last>>

\* Retrieve that also inserts the system entry into the collection.
RetrievePersisting(s) ==
  /\ pc[s] = "retrieve"
  /\ users' = users
  /\ \E c \in RetrieveCursor(collection, username[s], user_prompt[s]) :
       LET r == DocTexts(collection, c)
       IN /\ relevant_messages' = [relevant_messages EXCEPT ![s] = r]
          /\ combined_prompt' = [combined_prompt EXCEPT ![s] =
                                   CombinedPrompt(r, user_prompt[s])]
          /\ messages' = [messages EXCEPT ![s] =
                            Append(@, [role |-> "system",
                                       text |-> CombinedPrompt(r, user_prompt[s]),
                                       retrieved |-> r])]
          /\ \E t \in ReplyClockReadings :
               /\ now' = t
               /\ collection' = store_message(collection, "system",
                                              CombinedPrompt(r, user_prompt[s]),
                                              t, username[s])
          /\ last' = [last EXCEPT ![s].wrote = @ \o NewDocs]
  /\ pc' = [pc EXCEPT ![s] = "call_model"]
  /\ UNCHANGED <<logged_in, username, chat_session, form, user_input, user_prompt,
                 response_text, submits>>

\* Lines 191-196.
Retrieve(s) ==
  /\ pc[s] = "retrieve"
  /\ \E c \in RetrieveCursor(collection, username[s], user_prompt[s]) :
       LET r == DocTexts(collection, c)
       IN /\ relevant_messages' = [relevant_messages EXCEPT ![s] = r]
          /\ combined_prompt' = [combined_prompt EXCEPT ![s] =
                                   CombinedPrompt(r, user_prompt[s])]
          /\ messages' = [messages EXCEPT ![s] =
                            Append(@, [role |-> "system",
                                       text |-> CombinedPrompt(r, user_prompt[s]),
                                       retrieved |-> r])]
  /\ pc' = [pc EXCEPT ![s] = "call_model"]
  /\ UNCHANGED <<dbVars, logged_in, username, chat_session, form, user_input, user_prompt,
                 response_text, submits, last>>

\* What the external model may answer to a prompt: it echoes it.
ModelReplies(prompt) == {prompt}

\* The call is handed to a background worker and the session is free for
\* the next interaction while the reply is outstanding.
ModelReplyInBackground(s) ==
  /\ pc[s] = "call_model"
  /\ chat_session' = [chat_session EXCEPT ![s] =
                        Append(@, [role |-> "user", text |-> combined_prompt[s]])]
  /\ last' = [last EXCEPT ![s].calls = @ + 1]
  /\ pc' = [pc EXCEPT ![s] = "idle"]
  /\ UNCHANGED <<dbVars, logged_in, username, messages, form, user_input, localVars,
                 submits>>

\* Lines 199-201: send_message returns; the handle keeps the exchange.
ModelReply(s) ==
  /\ pc[s] = "call_model"
  /\ \E reply \in ModelReplies(combined_prompt[s]) :
       /\ response_text' = [response_text EXCEPT ![s] = reply]
       /\ chat_session' = [chat_session EXCEPT ![s] =
                             @ \o <<[role |-> "user", text |-> combined_prompt[s]],
                                    [role |-> "model", text |-> reply]>>]
  /\ last' = [last EXCEPT ![s].calls = @ + 1]
  /\ pc' = [pc EXCEPT ![s] = "store_assistant"]
  /\ UNCHANGED <<dbVars, logged_in, username, messages, form, user_input,
                 user_prompt, relevant_messages, combined_prompt, submits>>

\* ModelError without the except branch: the exception ends the run.
ModelErrorUncaught(s) ==
  /\ pc[s] = "call_model"
  /\ last' = [last EXCEPT ![s].calls = @ + 1, ![s].failed = TRUE,
                          ![s].outcome = "aborted"]
  /\ pc' = [pc EXCEPT ![s] = "idle"]
  /\ user_prompt' = [user_prompt EXCEPT ![s] = None]
  /\ relevant_messages' = [relevant_messages EXCEPT ![s] = None]
  /\ combined_prompt' = [combined_prompt EXCEPT ![s] = None]
  /\ response_text' = [response_text EXCEPT ![s] = None]
  /\ UNCHANGED <<dbVars, sessVars, form, user_input, submits>>

\* Lines 199-203: send_message raises and the except branch builds the reply.
ModelError(s) ==
  /\ pc[s] = "call_model"
  /\ \E e \in Errors :
       response_text' = [response_text EXCEPT ![s] = ErrorReply(e)]
  /\ last' = [last EXCEPT ![s].calls = @ + 1, ![s].failed = TRUE]
  /\ pc' = [pc EXCEPT ![s] = "store_assistant"]
  /\ UNCHANGED <<dbVars, sessVars, form, user_input, user_prompt,
                 relevant_messages, combined_prompt, submits>>

\* StoreAssistant without the append to the view.
StoreAssistantNoAppend(s) ==
  /\ pc[s] = "store_assistant"
  /\ \E t \in ReplyClockReadings :
       /\ now' = t
       /\ collection' = store_message(collection, "assistant", response_text[s],
                                      t, username[s])
  /\ last' = [last EXCEPT ![s].wrote = @ \o NewDocs,
                          ![s].outcome = "completed"]
  /\ pc' = [pc EXCEPT ![s] = "idle"]
  /\ user_prompt' = [user_prompt EXCEPT ![s] = None]
  /\ relevant_messages' = [relevant_messages EXCEPT ![s] = None]
  /\ combined_prompt' = [combined_prompt EXCEPT ![s] = None]
  /\ response_text' = [response_text EXCEPT ![s] = None]
  /\ user_input' = [user_input EXCEPT ![s] = Drawn(@, messages[s])]
  /\ UNCHANGED <<users, logged_in, username, messages, chat_session, form,
                 submits>>

\* Lines 206-212, and the rerun (which finds the new, empty chat input).
StoreAssistant(s) ==
  /\ pc[s] = "store_assistant"
  /\ \E t \in ReplyClockReadings :
       /\ now' = t
       /\ collection' = store_message(collection, "assistant", response_text[s],
                                      t, username[s])
  /\ messages' = [messages EXCEPT ![s] =
                    Append(@, [role |-> "assistant", text |-> response_text[s]])]
  /\ last' = [last EXCEPT ![s].wrote = @ \o NewDocs,
                          ![s].outcome = "completed"]
  /\ pc' = [pc EXCEPT ![s] = "idle"]
  /\ user_prompt' = [user_prompt EXCEPT ![s] = None]
  /\ relevant_messages' = [relevant_messages EXCEPT ![s] = None]
  /\ combined_prompt' = [combined_prompt EXCEPT ![s] = None]
  /\ response_text' = [response_text EXCEPT ![s] = None]
  /\ user_input' = [user_input EXCEPT ![s] = Drawn(@, messages'[s])]
  /\ UNCHANGED <<users, logged_in, username, chat_session, form, submits>>

\* The failure is caught and the run goes on to the model with the bare
\* user text.
StoreFailureCaught(s) ==
  /\ pc[s] \in {"store_user", "retrieve", "store_assistant"}
  /\ last' = [last EXCEPT ![s].outcome = "aborted"]
  /\ pc' = [pc EXCEPT ![s] = "call_model"]
  /\ relevant_messages' = [relevant_messages EXCEPT ![s] = <<>>]
  /\ combined_prompt' = [combined_prompt EXCEPT ![s] = user_prompt[s]]
  /\ UNCHANGED <<dbVars, sessVars, form, user_input, user_prompt, response_text, submits>>

\* insert_one or find of the submit flow raises: nothing catches it, the
\* run ends there and the session waits for the next interaction; the text
\* input stays as the run drew it.
StoreFailure(s) ==
  /\ pc[s] \in {"store_user", "retrieve", "store_assistant"}
  /\ last' = [last EXCEPT ![s].outcome = "aborted"]
  /\ pc' = [pc EXCEPT ![s] = "idle"]
  /\ user_prompt' = [user_prompt EXCEPT ![s] = None]
  /\ relevant_messages' = [relevant_messages EXCEPT ![s] = None]
  /\ combined_prompt' = [combined_prompt EXCEPT ![s] = None]
  /\ response_text' = [response_text EXCEPT ![s] = None]
  /\ UNCHANGED <<dbVars, sessVars, form, user_input, submits>>

\* ------------------------------------------------------------------ Next
Next ==
  \/ \E s \in Sessions, c \in Credentials : RegisterCheck(s, c[1], c[2])
  \/ \E s \in Sessions : RegisterInsert(s)
  \/ \E s \in Sessions, c \in Credentials : Login(s, c[1], c[2])
  \/ \E s \in Sessions : Logout(s)
  \/ \E s \in Sessions, text \in InputTexts : SubmitBegin(s, text)
  \/ \E s \in Sessions : Rerun(s)
  \/ \E s \in Sessions : StoreUser(s)
  \/ \E s \in Sessions : Retrieve(s)
  \/ \E s \in Sessions : ModelReply(s)
  \/ \E s \in Sessions : ModelError(s)
  \/ \E s \in Sessions : StoreAssistant(s)
  \/ \E s \in Sessions : StoreFailure(s)

Spec == Init /\ [][Next]_vars

\* ============================================================== properties
\* Roles of the documents the session's latest submit inserted, in order.
WroteRoles(s) == [i \in DOMAIN last[s].wrote |-> collection[last[s].wrote[i]].role]

\* Roles of the entries the session's latest submit appended to its view.
GrownRoles(s) ==
  [i \in 1..(Len(messages[s]) - last[s].base) |-> messages[s][last[s].base + i].role]

Completed(s) == last[s].outcome = "completed"

C2_ViewGrowsByThree ==
  \A s \in Sessions :
    /\ last[s].base <= Len(messages[s])
    /\ last[s].outcome = "none" => messages[s] = <<>>
    /\ Completed(s) => GrownRoles(s) = <<"user", "system", "assistant">>
    /\ last[s].outcome \in {"running", "aborted"} =>
         GrownRoles(s) \in {<<>>, <<"user">>, <<"user", "system">>}

C2_Witness ==
  \E s \in Sessions :
    /\ Completed(s) /\ ~last[s].failed
    /\ ~logged_in[s]
    /\ Len(messages[s]) = 3

\* ---- C3
\* C3 as stated: a logged-out session holds no in-memory view and no model
\* conversation, so the next login starts from an empty view and handle.
C3_LogoutDiscards ==
  \A s \in Sessions :
    ~logged_in[s] => messages[s] = <<>> /\ chat_session[s] = <<>>

\* ---- C4
\* C4 as stated: no two documents of user_collection carry the same username.
C4_UsernamesUnique ==
  \A d \in BagToSet(users) :
    /\ CopiesIn(d, users) = 1
    /\ \A e \in BagToSet(users) : e.username = d.username => e = d

\* ---- C5
\* C5: when the registration check runs for a username that has a
\* document, the run ends there: user_collection, the session state of
\* every session and the chat history are unchanged and no insert is pending.
C5_TakenUsernameRejected ==
  [][\A s \in Sessions, c \in Credentials :
       (UsernameExists(users, c[1]) /\ RegisterCheck(s, c[1], c[2])) =>
         /\ UNCHANGED <<users, collection, sessVars>>
         /\ pc'[s] = "idle"]_vars

C5_Witness ==
  \E s \in Sessions, c \in Credentials :
    /\ UsernameExists(users, c[1])
    /\ ~authenticate_user(users, c[1], c[2])
    /\ pc[s] = "idle" /\ ~logged_in[s]
    /\ BagCardinality(users) = 1

\* ---- C6
\* C6 as stated: for every registered (username, password), authenticate
\* accepts that password and rejects every other password of the username.
C6_AuthenticateExact ==
  \A u \in Usernames, p \in Passwords :
    BagIn([username |-> u, password |-> hash_password(p)], users) =>
      /\ authenticate_user(users, u, p)
      /\ \A q \in Passwords \ {p} : ~authenticate_user(users, u, q)

\* ---- C7
SubmitSteps == {"store_user", "retrieve", "call_model", "store_assistant"}

\* C7: a session becomes logged in only by a step from idle after which its
\* username is one that authenticates with some password; a login with
\* credentials that do not authenticate leaves logged_in and username as
\* they were; a logged-out session has no username and is in no submit
\* step; and the chat history changes only by a step of a logged-in session.
C7_LoginGate ==
  /\ [](\A s \in Sessions :
          ~logged_in[s] => username[s] = None /\ pc[s] \notin SubmitSteps)
  /\ [][\A s \in Sessions :
          /\ (~logged_in[s] /\ logged_in'[s]) =>
               /\ pc[s] = "idle"
               /\ \E c \in Credentials :
                    /\ authenticate_user(users, c[1], c[2])
                    /\ username'[s] = c[1]
          /\ \A c \in Credentials :
               (Login(s, c[1], c[2]) /\ ~authenticate_user(users, c[1], c[2])) =>
                 UNCHANGED <<logged_in, username>>]_vars
  /\ [][collection' # collection =>
          \E s \in Sessions :
            logged_in[s] /\ pc[s] \in SubmitSteps /\ pc'[s] # pc[s]]_vars

C7_Witness ==
  \E s, t \in Sessions :
    /\ logged_in[s] /\ username[s] = "bob"
    /\ ~logged_in[t] /\ pc[t] = "idle"
    /\ pc[s] = "call_model"

\* ---- C8
\* C8: the list a submit retrieved, whatever the sessions of the other users
\* have inserted, has at most K texts, each of them the text of a document
\* of the session's user; the system entry of the view records that list.
C8_RetrieveBoundedOwn ==
  \A s \in Sessions :
    pc[s] \in {"call_model", "store_assistant"} =>
      /\ Len(relevant_messages[s]) <= K
      /\ \A k \in DOMAIN relevant_messages[s] :
           \E i \in DOMAIN collection :
             /\ collection[i].username = username[s]
             /\ collection[i].text = relevant_messages[s][k]
      /\ messages[s][Len(messages[s])].retrieved = relevant_messages[s]

C8_Witness ==
  \E s \in Sessions :
    /\ pc[s] = "call_model"
    /\ Len(relevant_messages[s]) = K
    /\ Cardinality(Matching(collection, username[s], user_prompt[s])) > K
    /\ \E i \in DOMAIN collection :
         /\ collection[i].username # username[s]
         /\ Terms(collection[i].text) \cap Terms(user_prompt[s]) # {}

\* ---- C9
\* The example of the claim: three texts of alice at increasing timestamps.
AliceExample ==
  store_message(
    store_message(
      store_message(<<>>, "user", <<"cats", "are", "great">>, 1, "alice"),
      "user", <<"dogs", "are", "great">>, 2, "alice"),
    "user", <<"cats", "rule">>, 3, "alice")

\* r lists, latest first, the need latest documents of S.
LatestFirst(coll, S, r, need) ==
  /\ Len(r) = need
  /\ \A k \in DOMAIN r : r[k] \in S
  /\ \A k, l \in DOMAIN r : k < l =>
       r[k] # r[l] /\ coll[r[k]].timestamp >= coll[r[l]].timestamp
  /\ \A i \in S \ {r[k] : k \in DOMAIN r} :
       \A k \in DOMAIN r : coll[i].timestamp <= coll[r[k]].timestamp

Min(a, b) == IF a < b THEN a ELSE b

\* The documents of user u that hold a term of the query q.
Matched(u, q) ==
  {i \in DOMAIN collection :
     /\ collection[i].username = u
     /\ Terms(collection[i].text) \cap Terms(q) # {}}

\* C9: at the retrieval step of every submit, every list of documents the
\* query may yield holds only documents of the user that match the query,
\* latest timestamp first, all of them when at most K match and otherwise
\* K of them none older than a matching document left out, and the list
\* the step retrieves is the texts of one of them; on the example,
\* retrieve(alice, "cats") is ["cats rule", "cats are great"].
C9_RetrieveLatestFirst ==
  /\ [][\A s \in Sessions :
          (pc[s] = "retrieve" /\ pc'[s] = "call_model") =>
            LET S == Matched(username[s], user_prompt[s])
                cursors == RetrieveCursor(collection, username[s], user_prompt[s])
            IN /\ \A r \in cursors :
                    LatestFirst(collection, S, r, Min(K, Cardinality(S)))
               /\ \E r \in cursors :
                    relevant_messages'[s] = DocTexts(collection, r)]_vars
  /\ [](retrieve_relevant_messages(AliceExample, "alice", <<"cats">>)
          = {<< <<"cats", "rule">>, <<"cats", "are", "great">> >>})

C9_Witness ==
  \E s \in Sessions :
    /\ pc[s] = "store_assistant"
    /\ Len(relevant_messages[s]) = K
    /\ LET S == Matched(username[s], user_prompt[s])
       IN /\ Cardinality(S) > K + 1
          /\ \E i \in DOMAIN collection \ S : collection[i].username = username[s]
          /\ \E i, j \in S :
               i # j /\ collection[i].timestamp = collection[j].timestamp

\* ---- C10
\* C10: when send_message raises, the run goes on to the assistant write
\* with the reply "Error: " followed by the failure description, having
\* called the model once; a submit that completed called the model exactly
\* once; after a failed call it has appended that reply to the view and
\* inserted it as an assistant document; and the step that completes a
\* submit leaves the session logged in, under the same username, and idle.
C10_ModelFailureBecomesReply ==
  /\ [](\A s \in Sessions :
          /\ Completed(s) => last[s].calls = 1
          /\ (Completed(s) /\ last[s].failed) =>
               LET reply == messages[s][last[s].base + 3]
                   doc == collection[last[s].wrote[Len(last[s].wrote)]]
               IN /\ reply.role = "assistant"
                  /\ \E e \in Errors : reply.text = ErrorReply(e)
                  /\ doc.role = "assistant" /\ doc.text = reply.text)
  /\ [][\A s \in Sessions :
          /\ (~last[s].failed /\ last'[s].failed) =>
               /\ pc'[s] = "store_assistant"
               /\ \E e \in Errors : response_text'[s] = ErrorReply(e)
               /\ last'[s].calls = 1
               /\ logged_in'[s]
          /\ (~Completed(s) /\ Completed(s)') =>
               /\ logged_in'[s] /\ username'[s] = username[s]
               /\ pc'[s] = "idle"]_vars

C10_Witness ==
  \E s \in Sessions :
    /\ Completed(s) /\ last[s].failed
    /\ logged_in[s] /\ pc[s] = "idle"
    /\ messages[s][Len(messages[s])].text = ErrorReply(<<"timeout">>)

\* ---- C11
\* Lines 169-173: the documents of a user in the order the history display
\* may show them, find({"username": u}).sort("timestamp"): ascending
\* timestamps, documents with equal timestamps in any order.
RECURSIVE SortedAscending(_, _)
SortedAscending(coll, S) ==
  IF S = {} THEN {<<>>}
  ELSE LET first == {i \in S : \A j \in S : coll[i].timestamp <= coll[j].timestamp}
       IN UNION {{<<coll[i]>> \o r : r \in SortedAscending(coll, S \ {i})} : i \in first}

chat_history(coll, u) ==
  SortedAscending(coll, {i \in DOMAIN coll : coll[i].username = u})

\* C11: a step in which a session logs in or logs out leaves the message
\* collection exactly as it was (no document inserted, deleted, moved or
\* changed), so the history display of the user concerned, and of every
\* other user, reads the same before and after the step.
C11_LoginLogoutKeepHistory ==
  [][\A s \in Sessions :
       logged_in'[s] # logged_in[s] =>
         /\ collection' = collection
         /\ \A u \in {username[s], username'[s]} \ {None} :
              chat_history(collection', u) = chat_history(collection, u)]_vars

\* A session that completed a submit under one name and is now logged in
\* under another: it has logged out and in again over a non-empty history.
C11_Witness ==
  \E s \in Sessions :
    /\ Completed(s) /\ logged_in[s]
    /\ collection[last[s].wrote[1]].username # username[s]
    /\ chat_history(collection, username[s]) # {<<>>}

\* ---- C12
\* The entries the view of s gained in its latest submit.
Grown(s) == SubSeq(messages[s], last[s].base + 1, Len(messages[s]))

CycleOver(s) == pc[s] = "idle" /\ last[s].outcome \in {"completed", "aborted"}

IsPrefix(a, b) == Len(a) <= Len(b) /\ SubSeq(b, 1, Len(a)) = a

C13_AppendOnly ==
  [][/\ Len(collection) <= Len(collection')
     /\ \A i \in DOMAIN collection :
          /\ collection'[i].username = collection[i].username
          /\ collection'[i].role = collection[i].role
          /\ collection'[i].text = collection[i].text
          /\ collection'[i].timestamp = collection[i].timestamp]_vars

\* A submit has inserted both its documents behind older documents of the
\* same user.
C13_Witness ==
  \E s \in Sessions :
    /\ Len(last[s].wrote) = 2
    /\ \E k \in 1..(last[s].wrote[1] - 1) :
         collection[k].username = collection[last[s].wrote[1]].username

\* ---- C14
\* The latest submit of s has been through retrieval.
Retrieved(s) == Len(messages[s]) >= last[s].base + 2

IsSuffix(a, b) == Len(a) <= Len(b) /\ SubSeq(b, Len(b) - Len(a) + 1, Len(b)) = a

\* C14: once a submit has retrieved, its system entry records the list it
\* retrieved and, as text, the texts of that list joined by single spaces,
\* one space, and the user text of the submit, so a text ending with the
\* user text; while the run goes on that string is the prompt it holds and
\* that list the one it retrieved; the call to the model adds exactly that
\* prompt to the chat session, and the echoed reply, and the assistant entry
\* of a submit completed with it, equal it.
C14_PromptIsContextThenText ==
  \A s \in Sessions :
    Retrieved(s) =>
      LET user == messages[s][last[s].base + 1]
          sys == messages[s][last[s].base + 2]
          n == Len(chat_session[s])
      IN /\ user.role = "user" /\ sys.role = "system"
         /\ sys.text = Join(sys.retrieved) \o user.text
         /\ IsSuffix(user.text, sys.text)
         /\ pc[s] \in {"call_model", "store_assistant"} =>
              /\ combined_prompt[s] = sys.text
              /\ relevant_messages[s] = sys.retrieved
              /\ user_prompt[s] = user.text
         /\ (last[s].calls = 1 /\ ~last[s].failed) =>
              /\ n >= 2
              /\ chat_session[s][n - 1] = [role |-> "user", text |-> sys.text]
              /\ chat_session[s][n] = [role |-> "model", text |-> sys.text]
              /\ pc[s] = "store_assistant" => response_text[s] = sys.text
         /\ (Completed(s) /\ ~last[s].failed) =>
              messages[s][last[s].base + 3] = [role |-> "assistant", text |-> sys.text]

\* A submit completed with the echoed reply whose context holds a text other
\* than the new one, so that the order of context and text shows.
C14_Witness ==
  \E s \in Sessions :
    /\ Completed(s) /\ ~last[s].failed
    /\ LET user == messages[s][last[s].base + 1]
           sys == messages[s][last[s].base + 2]
       IN /\ Len(sys.retrieved) >= 2
          /\ \E i \in DOMAIN sys.retrieved : sys.retrieved[i] # user.text
          /\ Join(sys.retrieved) \o user.text # user.text \o Join(sys.retrieved)
          /\ messages[s][last[s].base + 3].text = sys.text

\* ---- C15
Aborted(s) == last[s].outcome = "aborted"

\* C15: the step in which a write or the query of a submit fails ends the
\* run there: the session is idle and stays logged in, the collection, the
\* view and the chat session are as the failing step found them, and no
\* step of that submit runs afterwards.  What
\* an aborted submit leaves is one of: nothing at all and no call of the
\* model (the user write failed); the user document, the user entry and no
\* call (the query failed); or the user document, the user and system
\* entries and one call, but neither an assistant document nor an assistant
\* entry (the assistant write failed).
C15_StoreFailureAborts ==
  /\ [](\A s \in Sessions :
          Aborted(s) =>
            /\ pc[s] \notin SubmitSteps
            /\ \/ GrownRoles(s) = <<>> /\ WroteRoles(s) = <<>> /\ last[s].calls = 0
               \/ GrownRoles(s) = <<"user">> /\ WroteRoles(s) = <<"user">>
                    /\ last[s].calls = 0
               \/ GrownRoles(s) = <<"user", "system">> /\ WroteRoles(s) = <<"user">>
                    /\ last[s].calls = 1)
  /\ [][\A s \in Sessions :
          (~Aborted(s) /\ Aborted(s)') =>
            /\ pc[s] \in {"store_user", "retrieve", "store_assistant"}
            /\ pc'[s] = "idle"
            /\ collection' = collection
            /\ messages'[s] = messages[s]
            /\ chat_session'[s] = chat_session[s]
            /\ logged_in'[s] /\ username'[s] = username[s]]_vars

\* The assistant write failed after the model had failed too, on a store
\* that holds completed submits of the same user.
C15_Witness ==
  \E s \in Sessions :
    /\ Aborted(s) /\ last[s].failed /\ last[s].calls = 1
    /\ WroteRoles(s) = <<"user">>
    /\ last[s].wrote[1] > 2
    /\ collection[last[s].wrote[1] - 1].username = username[s]

\* ---- C16
\* The order in which a run goes through the steps of a submit.
StepOrder ==
  {<<"idle", "store_user">>, <<"store_user", "retrieve">>,
   <<"retrieve", "call_model">>, <<"call_model", "store_assistant">>}

C17_RetrieveDeterministic ==
  /\ \A s \in Sessions :
       pc[s] = "retrieve" =>
         Cardinality(retrieve_relevant_messages(collection, username[s],
                                                user_prompt[s])) = 1
  /\ \A u \in Usernames, q \in InputTexts :
       (\A i \in DOMAIN collection : collection[i].username # u) =>
         retrieve_relevant_messages(collection, u, q) = {<<>>}

\* ---- C18
\* C18: a session is logged in exactly when it has a username, and its
\* username changes only in a step that logs it in or out; every document
\* carries the name of a registered user; the documents a running submit
\* has inserted carry the session's username; and a step that inserts a
\* document is taken by a logged-in session and gives the document the
\* username the session has, the one set by its latest login.
C18_MessagesCarryLoginName ==
  /\ [](/\ \A s \in Sessions :
             /\ logged_in[s] <=> username[s] # None
             /\ last[s].outcome = "running" =>
                  \A i \in DOMAIN last[s].wrote :
                    collection[last[s].wrote[i]].username = username[s]
        /\ \A i \in DOMAIN collection :
             /\ collection[i].username \in Usernames
             /\ UsernameExists(users, collection[i].username))
  /\ [][\A s \in Sessions :
          /\ username'[s] # username[s] => logged_in'[s] # logged_in[s]
          /\ (last'[s].wrote # last[s].wrote /\ last'[s].wrote # <<>>) =>
               /\ logged_in[s] /\ username[s] \in Usernames
               /\ collection'[Len(collection')].username = username[s]]_vars

\* bob's session has inserted a user document under bob's name while the
\* other session is logged in as alice.
C18_Witness ==
  \E s, o \in Sessions :
    /\ s # o
    /\ pc[s] = "retrieve" /\ username[s] = "bob"
    /\ collection[last[s].wrote[1]].username = "bob"
    /\ logged_in[o] /\ username[o] = "alice"

\* ---- C19
\* Number of places at which the text a occurs in the text b.
Occurrences(a, b) ==
  Cardinality({k \in 0..(Len(b) - Len(a)) : SubSeq(b, k + 1, k + Len(a)) = a})

\* C19: while a run is at the query, the collection already holds the user
\* document of the run, with the text of the run, under the session's name;
\* and when that text has a term to search for, so that it matches its own
\* query, the list the run retrieved holds the text, and the prompt built
\* from it holds the text at least twice: within the context and, behind
\* it, as the new text.
C19_OwnTextRetrieved ==
  \A s \in Sessions :
    /\ pc[s] = "retrieve" =>
         LET doc == collection[last[s].wrote[1]]
         IN /\ doc.role = "user" /\ doc.text = user_prompt[s]
            /\ doc.username = username[s]
            /\ Terms(user_prompt[s]) # {} =>
                 last[s].wrote[1] \in Matching(collection, username[s], user_prompt[s])
    /\ (pc[s] \in {"call_model", "store_assistant"} /\ Terms(user_prompt[s]) # {}) =>
         /\ \E i \in DOMAIN relevant_messages[s] :
              relevant_messages[s][i] = user_prompt[s]
         /\ IsSuffix(user_prompt[s], combined_prompt[s])
         /\ Occurrences(user_prompt[s], combined_prompt[s]) >= 2

\* A run on a store without earlier documents of the user: the text it
\* retrieved is its own and nothing else.
C19_Witness ==
  \E s \in Sessions :
    /\ pc[s] = "call_model"
    /\ relevant_messages[s] = <<user_prompt[s]>>
    /\ combined_prompt[s] = user_prompt[s] \o user_prompt[s]
    /\ Len(collection) > 1

\* ---- C20
\* C20 as stated: after every submit, completed or aborted, the input the
\* next run of the session draws is empty, so that no run takes up a text
\* a submit has already been started for.
C20_InputEmptyAfterSubmit ==
  \A s \in Sessions :
    (pc[s] \notin SubmitSteps /\ last[s].outcome \in {"completed", "aborted"}) =>
      InputValue(s) = <<"">>

\* C20: once the latest submit of a session has appended to the view, the
\* input drawn under the key of the view as it now is holds no text, so no
\* later run of the session takes the text up again; a session that is not
\* logged in keeps no input; an idle session finds text in its input only
\* when the submit of that text was aborted before it inserted or appended
\* anything or called the model; and only then does a run start a submit
\* without new text having been entered, with the text in the input.
C20_TextProcessedOnce ==
  /\ [](\A s \in Sessions :
          /\ Len(messages[s]) > last[s].base => InputValue(s) = <<"">>
          /\ ~logged_in[s] => user_input[s] = NoInput
          /\ (pc[s] \notin SubmitSteps /\ InputValue(s) # <<"">>) =>
               /\ Aborted(s) /\ Grown(s) = <<>>
               /\ last[s].wrote = <<>> /\ last[s].calls = 0)
  /\ [][\A s \in Sessions :
          (pc[s] = "idle" /\ pc'[s] = "store_user"
             /\ user_input'[s] = user_input[s]) =>
            /\ Aborted(s) /\ Grown(s) = <<>>
            /\ last[s].wrote = <<>> /\ last[s].calls = 0
            /\ user_prompt'[s] = InputValue(s)
            /\ collection' = collection]_vars

\* A submit aborted after its user entry was appended: the text is still
\* kept under the old key and the input of the next run is empty.
C20_Witness ==
  \E s \in Sessions :
    /\ Aborted(s) /\ pc[s] = "idle" /\ logged_in[s]
    /\ GrownRoles(s) = <<"user">>
    /\ user_input[s].value = messages[s][last[s].base + 1].text
    /\ InputValue(s) = <<"">>

====
